---- MODULE Spec2Model ----
(***************************************************************************)
(* Faraday_3D (src/faraday3d.py): the physics sampling of animacion, its   *)
(* render cadences, and the frame sequence FuncAnimation feeds it when the *)
(* simulation is started with ejecutar_simulacion.  The front-ends that    *)
(* construct a Faraday_3D (main of src/faraday3d.py on the console, and    *)
(* VentanaPrincipal of src/main.py) are a specification of their own,      *)
(* SpecFrente, as are direct calls of dibujar_campo_magnetico_3d,          *)
(* SpecCampo.                                                              *)
(*                                                                         *)
(* Numbers.  The program computes in IEEE doubles; the model computes in   *)
(* integers, each quantity in a fixed unit:                                *)
(*   time            0.01 s            (t = frame * 0.05 s = frame * 5)    *)
(*   radio_espira    0.5 m                                                 *)
(*   area_espira     pi/4 m^2          (pi * r^2 = (pi/4) * radio^2)       *)
(*   B_max           1e-4 T                                                *)
(*   frecuencia      0.5 Hz                                                *)
(*   omega           pi/2 rad/s        (2 * pi * f = (pi/2) * 2 * frec)    *)
(*   omega * t       pi/200 rad = 0.9 degrees                              *)
(*   cos, sin        1e-3                                                  *)
(*   B               1e-7 T                                                *)
(*   flux            (pi/4) * 1e-7 Wb                                      *)
(*   EMF             (pi^2/8) * 1e-7 V                                     *)
(*   azimuth         0.001 degrees                                         *)
(* A double is represented by its value rounded AWAY from zero to the      *)
(* unit, so that a double is zero, positive or negative exactly when its   *)
(* representative is: np.cos(np.pi/2) = 6.1e-17 is represented by 1, not 0.*)
(***************************************************************************)
EXTENDS Integers, Sequences, FiniteSets

VARIABLES
    num_vueltas, radio_espira, area_espira, B_max, frecuencia, omega,
    tiempo, campo_magnetico, flujo_magnetico, emf_inducida,
    ax1, ax2, ax3, color_espira, line_B, line_emf, text_values,
    duracion, frames, frame_seq, anim,
    args, hecho, dibujo, frente

config == <<num_vueltas, radio_espira, area_espira, B_max, frecuencia, omega>>
historia == <<tiempo, campo_magnetico, flujo_magnetico, emf_inducida>>
figura == <<ax1, ax2, ax3, color_espira, line_B, line_emf, text_values>>
conductor == <<duracion, frames, frame_seq, anim>>
vars == <<config, historia, figura, conductor, args, hecho, dibujo, frente>>

----------------------------------------------------------------------------
(* Bounds of the model. *)

\* calls of animacion made by the animation before the model stops it
MaxLlamadas == 34
\* direct calls of animacion (without ejecutar_simulacion)
MaxDirectas == 12

----------------------------------------------------------------------------
(* Inputs. *)

\* (num_vueltas, radio_espira, B_max, frecuencia), all positive:
\*   <<1, 2, 20000, 1>>  N=1, r=1.0 m, B_max=2.0 T, f=0.5 Hz  (the constructor's
\*                       defaults; preset 1 of usar_configuracion_rapida)
\*   <<1, 2, 10000, 2>>  N=1, r=1 m, B_max=1 T, f=1 Hz  (simulacion_por_defecto)
\*   <<3, 1, 1, 1>>      N=3, r=0.5 m, B_max=0.0001 T, f=0.5 Hz  (a weak field)
\*   <<1, 1, 1, 40>>     N=1, r=0.5 m, B_max=0.0001 T, f=20 Hz  (one field period
\*                       per frame: the sampled field is constant)
\*   <<5, 3, 900, 2>>    N=5, r=1.5 m, B_max=0.09 T, f=1 Hz  (five turns drawn)
Configuraciones ==
    { <<1, 2, 20000, 1>>, <<1, 2, 10000, 2>>, <<3, 1, 1, 1>>, <<1, 1, 1, 40>>,
      <<5, 3, 900, 2>> }

\* durations in 0.01 s: 0.3 s, 0.52 s, 0.58 s, 1 s and 10 s, all of them
\* accepted by solicitar_parametros (any positive float)
Duraciones == { 30, 52, 58, 100, 1000 }

----------------------------------------------------------------------------
(* Arithmetic helpers. *)

Abs(x) == IF x < 0 THEN -x ELSE x

\* Python's min() and max() of a non-empty list
Min(s) == CHOOSE x \in { s[i] : i \in 1..Len(s) } :
              \A j \in 1..Len(s) : x <= s[j]
Max(s) == CHOOSE x \in { s[i] : i \in 1..Len(s) } :
              \A j \in 1..Len(s) : x >= s[j]

\* Python's set() of a list
set(s) == { s[i] : i \in 1..Len(s) }

\* cos of 0, 9, ..., 90 degrees in 1e-3, rounded away from zero.  The last
\* entry is the double np.cos of the double nearest pi/2, which is 6.1e-17.
CosTabla == <<1000, 988, 952, 892, 810, 708, 588, 454, 310, 157, 1>>

\* np.cos(x), x in 0.9 degrees and a multiple of 9 degrees (every omega * t of
\* the model is).  At 90 and 270 degrees the double argument is not the exact
\* angle and the result is a rounding residue, not 0; its sign is the one of
\* an argument just short of the angle (+6.1e-17 at pi/2, -1.8e-16 at 3pi/2).
Cos(x) ==
    LET k == (x \div 10) % 40
    IN  IF k <= 10 THEN CosTabla[k + 1]
        ELSE IF k <= 20 THEN -CosTabla[21 - k]
        ELSE IF k <= 30 THEN -CosTabla[k - 19]
        ELSE CosTabla[41 - k]

\* The whole turns (omega * t = 2 pi n, n in 1..40) at which the double
\* np.sin(omega * t) is a positive residue, at 20 Hz; at the others it is a
\* negative one, as it is at the one whole turn the 1 Hz run reaches (n = 1).
VueltasPositivas ==
    { 3, 6, 7, 11, 12, 13, 14, 17, 19, 21, 22, 23, 24, 25, 26, 27, 28, 29,
      34, 38, 39 }

\* np.sin(x), as Cos.  np.sin(0.0) is 0.0 exactly; at every other multiple of
\* 180 degrees the result is a rounding residue (+1.2e-16 at pi, -2.4e-16 at
\* 2 pi), not 0, with the sign the double has on that frame.
Sin(x) ==
    LET k == (x \div 10) % 40
    IN  IF x = 0 THEN 0
        ELSE IF k = 0
             THEN IF (x \div 400) \in VueltasPositivas
                  THEN CosTabla[11] ELSE -CosTabla[11]
        ELSE IF k <= 10 THEN CosTabla[11 - k]
        ELSE IF k <= 20 THEN CosTabla[k - 9]
        ELSE IF k <= 30 THEN -CosTabla[31 - k]
        ELSE -CosTabla[k - 29]

\* np.sin(x) for a small angle x in 0.001 rad (0 <= x < 1000), result in 1e-3:
\* x - x^3/6 + x^5/120 (the later terms are below the unit), rounded up.
SinRad(x) ==
    LET x3 == (x * x * x) \div 6000
        x5 == (x3 * ((x * x) \div 1000)) \div 20000
    IN  (x * 1000 - x3 + x5 + 999) \div 1000

----------------------------------------------------------------------------
(* Faraday_3D: the physics. *)

\* t = frame * 0.05
Tiempo(frame) == frame * 5

\* B_max * np.cos(omega * t)
calcular_campo_magnetico(t) == B_max * Cos(omega * t)

\* faulty variant: the radius instead of the area
calcular_flujo_radio(B) == B * radio_espira

\* B * area_espira
calcular_flujo_magnetico(B) == B * area_espira

\* faulty variant: the EMF as the difference of B from the last stored sample
calcular_emf_diferencia(t) ==
    IF campo_magnetico = <<>>
    THEN 0
    ELSE -num_vueltas * area_espira *
            (calcular_campo_magnetico(t)
               - campo_magnetico[Len(campo_magnetico)])

\* dB_dt = -B_max * omega * np.sin(omega * t); dPhi_dt = area_espira * dB_dt;
\* emf = -num_vueltas * dPhi_dt
calcular_emf_inducida(t) ==
    LET dB_dt == -B_max * omega * Sin(omega * t)
        dPhi_dt == area_espira * dB_dt
    IN  -num_vueltas * dPhi_dt

\* faulty variant: the sample is stored on every other call only
almacenar_throttled(serie, valor) ==
    IF Len(serie) % 2 = 0 THEN Append(serie, valor) ELSE serie

\* list.append of one sample to one series
almacenar(serie, valor) == Append(serie, valor)

----------------------------------------------------------------------------
(* Faraday_3D: the figure. *)

\* an axis limit nobody has set yet, and one set by set_xlim / set_ylim
SinLimite == [fijado |-> FALSE, lo |-> 0, hi |-> 0]
Limite(lo, hi) == [fijado |-> TRUE, lo |-> lo, hi |-> hi]

\* the loop line and the lines of the extra turns that setup_plots adds to
\* ax1 (at most 5 turns are drawn); none carries the campo_magnetico tag
Espiras(n) ==
    [i \in 1..(IF n > 1 THEN (IF n < 5 THEN n ELSE 5) ELSE 1) |->
        [campo_magnetico |-> FALSE, color |-> "b", r |-> 0]]

\* faulty variant: one threshold, 0.05, for the vectors and the flux circles
dibujar_campo_un_umbral(B, ax) ==
    LET limpias == SelectSeq(ax.collections, LAMBDA c : ~c.campo_magnetico)
        color == IF B > 0 THEN "red" ELSE "blue"
        dibuja == Abs(B) \div B_max > 50
    IN  [ax EXCEPT
            !.collections =
                IF dibuja
                THEN Append(limpias, [campo_magnetico |-> TRUE,
                                      color |-> color, W |-> B * 4])
                ELSE limpias,
            !.lines =
                IF dibuja
                THEN ax.lines \o
                        << [campo_magnetico |-> TRUE, color |-> color, r |-> 5],
                           [campo_magnetico |-> TRUE, color |-> color, r |-> 8] >>
                ELSE ax.lines]

\* dibujar_campo_magnetico_3d(B, ax): the collections and lines of ax after the
\* call.  ax.quiver adds a collection, ax.plot adds lines; the clean-up loop
\* goes over ax.collections only.  W is the z component B * 0.4 in 1e-8 T.
dibujar_campo_magnetico_3d(B, ax) ==
    LET limpias == SelectSeq(ax.collections, LAMBDA c : ~c.campo_magnetico)
        intensidad == Abs(B) \div B_max   \* abs(B) / B_max in 1e-3
        color == IF B > 0 THEN "red" ELSE "blue"
        campo_collection ==
            [campo_magnetico |-> TRUE, color |-> color, W |-> B * 4]
        flujo_line(r) == [campo_magnetico |-> TRUE, color |-> color, r |-> r]
    IN  [ax EXCEPT
            !.collections =
                IF intensidad > 50
                THEN Append(limpias, campo_collection)
                ELSE limpias,
            !.lines =
                IF intensidad > 100
                THEN ax.lines \o <<flujo_line(5), flujo_line(8)>>
                ELSE ax.lines]

\* faulty variant: the azimuth of the frame before
Azimut_anterior(t) == 45000 + 15 * SinRad(3 * (t - 5))

\* 45 + 15 * np.sin(t * 0.3), in 0.001 degrees
Azimut(t) == 45000 + 15 * SinRad(3 * t)

\* ax.view_init(elev=20, azim=azim)
view_init(ax, azim) == [ax EXCEPT !.elev = 20, !.azim = azim]

\* The configurations (num_vueltas, radio_espira, B_max, frecuencia) for
\* which the double quotient abs(emf) / (num_vueltas * B_max * omega *
\* area_espira) is above 1 where np.sin is 1.0 or -1.0: the EMF is the product
\* N * (A * (B_max * omega * sin)), the divisor ((N * B_max) * omega) * A,
\* and the two roundings differ.  For N=5, r=1.5, B_max=0.09, f=1 the quotient
\* is 1.0000000000000004; for the other configurations of the model it is 1.0
\* or 0.9999999999999999.
CocienteLargo == { <<5, 3, 900, 2>> }

\* the colour of the loop: the colour map and its argument
\* 0.5 + 0.5 * intensidad_emf, with intensidad_emf =
\* abs(emf) / (num_vueltas * B_max * omega * area_espira), both in 1e-3.
\* The halving is exact and the sum is rounded: 1.0000000000000002 for an
\* intensity of 1.0000000000000004.
ColorEspira(emf) ==
    LET divisor == num_vueltas * B_max * omega * area_espira
        intensidad_emf ==
            IF Abs(emf) = divisor * 1000
               /\ <<num_vueltas, radio_espira, B_max, frecuencia>>
                      \in CocienteLargo
            THEN 1001
            ELSE Abs(emf) \div divisor
    IN  [cmap |-> IF emf > 0 THEN "Greens" ELSE "Oranges",
         intensidad_emf |-> intensidad_emf,
         x |-> 500 + (intensidad_emf + 1) \div 2]

\* faulty variant: the field redrawn every third frame
campo_cada_tres(frame) == frame % 3 = 0

\* faulty variant: the length of the history before this frame's sample
limites_antes(frame, n) == n - 1 > 10 /\ frame % 10 = 0

\* the cadences of animacion
campo_toca(frame) == frame % 2 = 0
rotar_toca(frame) == frame % 5 = 0
limites_toca(frame, n) == n > 10 /\ frame % 10 = 0
texto_toca(frame) == frame % 3 = 0

\* faulty variant: any two distinct values count as a significant variation
variacion_cualquiera(serie, umbral) == Cardinality(set(serie)) > 1

\* "Solo ajustar ylim si hay variación significativa": the series has more
\* than one distinct value and max - min exceeds 0.001 (umbral, in the
\* series' unit)
variacion_significativa(serie, umbral) ==
    IF Cardinality(set(serie)) > 1
    THEN Abs(Max(serie) - Min(serie)) > umbral
    ELSE FALSE

\* the y limits of a series' plot on a frame where the limits are adjusted:
\* set_ylim(min * 1.1, max * 1.1) (in tenths of the series' unit) when the
\* variation is significant, else left as they are
AjustarY(ylim, serie, umbral) ==
    IF variacion_significativa(serie, umbral)
    THEN Limite(Min(serie) * 11, Max(serie) * 11)
    ELSE ylim

\* 0.001 T in 1e-7 T
UmbralB == 10000
\* 0.001 V in (pi^2/8) * 1e-7 V is 8105.69...: a whole number of units
\* exceeds it exactly when it exceeds 8105
UmbralEmf == 8105

\* f'{azim:.1f}': the azimuth in 0.1 degrees
Formato1(azim) == (azim + 50) \div 100

----------------------------------------------------------------------------
(* Faraday_3D.__init__ and setup_plots: the state after construction. *)

Init ==
    /\ \E c \in Configuraciones :
         /\ num_vueltas = c[1]
         /\ radio_espira = c[2]
         /\ area_espira = c[2] * c[2]
         /\ B_max = c[3]
         /\ frecuencia = c[4]
         /\ omega = 2 * c[4]
         /\ ax1 = [collections |-> <<>>, lines |-> Espiras(c[1]),
                   elev |-> 20, azim |-> 45000]
    /\ tiempo = <<>>
    /\ campo_magnetico = <<>>
    /\ flujo_magnetico = <<>>
    /\ emf_inducida = <<>>
    /\ ax2 = [xlim |-> SinLimite, ylim |-> SinLimite]
    /\ ax3 = [xlim |-> SinLimite, ylim |-> SinLimite]
    /\ color_espira = [cmap |-> "b", x |-> 0, intensidad_emf |-> 0]
    /\ line_B = 0
    /\ line_emf = 0
    /\ text_values = [puesto |-> FALSE, t |-> 0, vueltas |-> 0, vista |-> 0]
    /\ duracion = 0
    /\ frames = 0
    /\ frame_seq = 0
    /\ anim = "no"
    /\ args = <<>>
    /\ hecho = {}
    /\ dibujo = [llamadas |-> 0, B |-> 0]
    /\ frente = [en |-> "construida", valores |-> <<>>, avisos |-> 0]

----------------------------------------------------------------------------
(* Faraday_3D.animacion(frame): one call, whole.  args is the sequence of    *)
(* frame arguments of the calls so far, hecho the calls the last animacion  *)
(* made on the figure; line_B and line_emf hold the number of points given  *)
(* to set_data.  Of the text set every third frame the model keeps the time, *)
(* the turns and the view angle (the text also shows B, the flux and the     *)
(* EMF to three decimals).  dibujo counts the calls of                       *)
(* dibujar_campo_magnetico_3d and keeps the B of the last one.               *)

animacion(frame) ==
    LET t == Tiempo(frame)
        B == calcular_campo_magnetico(t)
        Phi == calcular_flujo_magnetico(B)
        emf == calcular_emf_inducida(t)
        tiempo1 == almacenar(tiempo, t)
        campo1 == almacenar(campo_magnetico, B)
        flujo1 == almacenar(flujo_magnetico, Phi)
        emf1 == almacenar(emf_inducida, emf)
        dibujado == IF campo_toca(frame)
                    THEN dibujar_campo_magnetico_3d(B, ax1)
                    ELSE ax1
        ajusta == limites_toca(frame, Len(tiempo1))
        tiempo_max == Max(tiempo1)
    IN  /\ tiempo' = tiempo1
        /\ campo_magnetico' = campo1
        /\ flujo_magnetico' = flujo1
        /\ emf_inducida' = emf1
        /\ color_espira' = ColorEspira(emf)
        /\ ax1' = IF rotar_toca(frame)
                  THEN view_init(dibujado, Azimut(t))
                  ELSE dibujado
        /\ line_B' = Len(tiempo1)
        /\ line_emf' = Len(tiempo1)
        /\ ax2' = IF ajusta
                  THEN [xlim |-> IF tiempo_max > 0
                                 THEN Limite(0, tiempo_max)
                                 ELSE ax2.xlim,
                        ylim |-> AjustarY(ax2.ylim, campo1, UmbralB)]
                  ELSE ax2
        /\ ax3' = IF ajusta
                  THEN [xlim |-> Limite(0, tiempo_max),
                        ylim |-> AjustarY(ax3.ylim, emf1, UmbralEmf)]
                  ELSE ax3
        /\ text_values' =
              IF texto_toca(frame)
              THEN [puesto |-> TRUE, t |-> t, vueltas |-> num_vueltas,
                    vista |-> Formato1(Azimut(t))]
              ELSE text_values
        /\ args' = Append(args, frame)
        /\ hecho' =
              (IF campo_toca(frame) THEN {"dibujar_campo_magnetico_3d"} ELSE {})
              \cup (IF rotar_toca(frame) THEN {"view_init"} ELSE {})
              \cup (IF ajusta THEN {"set_xlim"} ELSE {})
              \cup (IF ajusta /\ variacion_significativa(campo1, UmbralB)
                    THEN {"set_ylim_B"} ELSE {})
              \cup (IF ajusta /\ variacion_significativa(emf1, UmbralEmf)
                    THEN {"set_ylim_emf"} ELSE {})
              \cup (IF texto_toca(frame) THEN {"set_text"} ELSE {})
        /\ dibujo' = IF campo_toca(frame)
                     THEN [llamadas |-> dibujo.llamadas + 1, B |-> B]
                     ELSE dibujo
        /\ UNCHANGED <<config, frente>>

----------------------------------------------------------------------------
(* Faraday_3D.ejecutar_simulacion and the FuncAnimation it creates. *)

\* The durations up to 1 s (in 0.01 s) whose double quotient duracion / 0.05
\* is just below the whole number the exact quotient is: the double 0.05 is
\* above 1/20 and 0.3 / 0.05 is 5.999999999999999, 0.6 / 0.05 is
\* 11.999999999999998.  For every other duration up to 1 s, and for the
\* whole seconds up to 99 s (10 / 0.05 is 200.0), the double quotient has the
\* integer part of the exact one.
CocienteCorto == { 15, 30, 35, 60, 70, 95 }

\* int(duracion / 0.05) for a duration d > 0 in 0.01 s: the integer part of
\* the double quotient
TotalFrames(d) == IF d \in CocienteCorto THEN d \div 5 - 1 ELSE d \div 5

\* ejecutar_simulacion(duracion): creates the animation over range(frames) and
\* enters the event loop (plt.show)
ejecutar_simulacion(d) ==
    /\ anim = "no"
    /\ args = <<>>
    /\ duracion' = d
    /\ frames' = TotalFrames(d)
    /\ frame_seq' = 0
    /\ anim' = "creada"
    /\ UNCHANGED <<config, historia, figura, args, hecho, dibujo, frente>>

\* FuncAnimation._init_draw, at the first draw of the figure: no init_func was
\* given, so the first frame of a fresh frame sequence is drawn with animacion
InitDraw ==
    /\ anim = "creada"
    /\ frames > 0
    /\ Len(args) < MaxLlamadas
    /\ animacion(0)
    /\ anim' = "corriendo"
    /\ UNCHANGED <<duracion, frames, frame_seq>>

\* FuncAnimation._step, on a timer tick: the next frame of frame_seq
Step ==
    /\ anim = "corriendo"
    /\ frame_seq < frames
    /\ Len(args) < MaxLlamadas
    /\ animacion(frame_seq)
    /\ frame_seq' = frame_seq + 1
    /\ UNCHANGED <<duracion, frames, anim>>

\* FuncAnimation._step with frame_seq exhausted and repeat=True: _init_draw
\* again (animacion draws frame 0) and a new frame sequence
Repeat ==
    /\ anim = "corriendo"
    /\ frame_seq >= frames
    /\ Len(args) < MaxLlamadas
    /\ animacion(0)
    /\ frame_seq' = 0
    /\ UNCHANGED <<duracion, frames, anim>>

\* animacion called on the object directly, before any animation is created:
\* the next frame or the one after it
LlamadaDirecta ==
    /\ anim = "no"
    /\ Len(args) < MaxDirectas
    /\ \E frame \in { (IF args = <<>> THEN 0 ELSE args[Len(args)] + 1),
                      (IF args = <<>> THEN 1 ELSE args[Len(args)] + 2) } :
          animacion(frame)
    /\ UNCHANGED conductor

Next ==
    \/ \E d \in Duraciones : ejecutar_simulacion(d)
    \/ InitDraw
    \/ Step
    \/ Repeat
    \/ LlamadaDirecta

Spec == Init /\ [][Next]_vars

----------------------------------------------------------------------------
(* The front-ends: main() of src/faraday3d.py, which prompts on the console, *)
(* and VentanaPrincipal of src/main.py.  frente.en is the place the          *)
(* front-end is at, frente.valores the values solicitar_parametros has       *)
(* accepted so far, frente.avisos the messages shown for rejected input.     *)

\* messages for rejected input before the model stops the user
MaxAvisos == 2

\* what the user types where a number is asked for, when it parses: a
\* negative number, zero and two positive ones, in the unit of the parameter
Valores == { -1, 0, 1, 2 }

\* durations typed (0.01 s): -1 s, 0 s, 0.3 s and 1 s
DuracionesTecleadas == { -100, 0, 30, 100 }

\* the presets of usar_configuracion_rapida with their durations: options 1,
\* 2 and 4 (option 3 has f = 0.2 Hz, a positive frequency outside the 0.5 Hz
\* grid of the model)
configuraciones ==
    { <<1, 2, 20000, 1, 2000>>, <<5, 1, 30000, 3, 1500>>,
      <<2, 3, 50000, 2, 2000>> }

\* simulacion = Faraday_3D(c[1], c[2], c[3], c[4]) followed by
\* simulacion.ejecutar_simulacion(duracion=d): the state __init__ and
\* setup_plots leave, with the animation created
Construir(c, d) ==
    /\ num_vueltas' = c[1]
    /\ radio_espira' = c[2]
    /\ area_espira' = c[2] * c[2]
    /\ B_max' = c[3]
    /\ frecuencia' = c[4]
    /\ omega' = 2 * c[4]
    /\ ax1' = [collections |-> <<>>, lines |-> Espiras(c[1]),
               elev |-> 20, azim |-> 45000]
    /\ tiempo' = <<>>
    /\ campo_magnetico' = <<>>
    /\ flujo_magnetico' = <<>>
    /\ emf_inducida' = <<>>
    /\ ax2' = [xlim |-> SinLimite, ylim |-> SinLimite]
    /\ ax3' = [xlim |-> SinLimite, ylim |-> SinLimite]
    /\ color_espira' = [cmap |-> "b", x |-> 0, intensidad_emf |-> 0]
    /\ line_B' = 0
    /\ line_emf' = 0
    /\ text_values' = [puesto |-> FALSE, t |-> 0, vueltas |-> 0, vista |-> 0]
    /\ duracion' = d
    /\ frames' = TotalFrames(d)
    /\ frame_seq' = 0
    /\ anim' = "creada"
    /\ args' = <<>>
    /\ hecho' = {}
    /\ dibujo' = [llamadas |-> 0, B |-> 0]

\* nothing is constructed: only the front-end moves
SoloFrente == UNCHANGED <<config, historia, figura, conductor, args, hecho,
                          dibujo>>

\* a rejected input: a message, and the same prompt or window again
Aviso ==
    /\ frente.avisos < MaxAvisos
    /\ frente' = [frente EXCEPT !.avisos = @ + 1]
    /\ SoloFrente

\* before either front-end has constructed anything: no Faraday_3D exists
\* (its fields are placeholders), the console is at the first prompt of main
\* or the root window of VentanaPrincipal is shown
InitFrente ==
    /\ num_vueltas = 0 /\ radio_espira = 0 /\ area_espira = 0
    /\ B_max = 0 /\ frecuencia = 0 /\ omega = 0
    /\ ax1 = [collections |-> <<>>, lines |-> <<>>, elev |-> 0, azim |-> 0]
    /\ tiempo = <<>>
    /\ campo_magnetico = <<>>
    /\ flujo_magnetico = <<>>
    /\ emf_inducida = <<>>
    /\ ax2 = [xlim |-> SinLimite, ylim |-> SinLimite]
    /\ ax3 = [xlim |-> SinLimite, ylim |-> SinLimite]
    /\ color_espira = [cmap |-> "b", x |-> 0, intensidad_emf |-> 0]
    /\ line_B = 0
    /\ line_emf = 0
    /\ text_values = [puesto |-> FALSE, t |-> 0, vueltas |-> 0, vista |-> 0]
    /\ duracion = 0
    /\ frames = 0
    /\ frame_seq = 0
    /\ anim = "no"
    /\ args = <<>>
    /\ hecho = {}
    /\ dibujo = [llamadas |-> 0, B |-> 0]
    /\ frente \in { [en |-> e, valores |-> <<>>, avisos |-> 0] :
                      e \in {"main", "VentanaPrincipal"} }

\* main: "Seleccione una opción (1-2)"; anything else is asked again
main_tipo_config ==
    /\ frente.en = "main"
    /\ \/ /\ \E destino \in {"usar_configuracion_rapida", "num_vueltas"} :
               frente' = [frente EXCEPT !.en = destino]
          /\ SoloFrente
       \/ Aviso

\* usar_configuracion_rapida: options 1 to 4 are presets, with which main
\* constructs the simulation; option 5 is solicitar_parametros; anything
\* else is asked again
usar_configuracion_rapida ==
    /\ frente.en = "usar_configuracion_rapida"
    /\ \/ \E c \in configuraciones :
            /\ Construir(<<c[1], c[2], c[3], c[4]>>, c[5])
            /\ frente' = [frente EXCEPT !.en = "construida"]
       \/ /\ frente' = [frente EXCEPT !.en = "num_vueltas"]
          /\ SoloFrente
       \/ Aviso

\* one turn of a while loop of solicitar_parametros for one of the four
\* parameters: the input does not parse (ValueError) or is not > 0 and is
\* asked again, or it is > 0 and the loop is left for the next prompt
solicitar(parametro, siguiente) ==
    /\ frente.en = parametro
    /\ \/ Aviso
       \/ \E v \in Valores :
            IF v > 0
            THEN /\ frente' = [frente EXCEPT !.en = siguiente,
                                             !.valores = Append(@, v)]
                 /\ SoloFrente
            ELSE Aviso

solicitar_num_vueltas == solicitar("num_vueltas", "radio_espira")
solicitar_radio_espira == solicitar("radio_espira", "B_max")
solicitar_B_max == solicitar("B_max", "frecuencia")
solicitar_frecuencia == solicitar("frecuencia", "duracion")

\* the last loop of solicitar_parametros, the duration; once it is accepted
\* main constructs the simulation with the values returned and runs it
solicitar_duracion ==
    /\ frente.en = "duracion"
    /\ \/ Aviso
       \/ \E d \in DuracionesTecleadas :
            IF d > 0
            THEN /\ Construir(frente.valores, d)
                 /\ frente' = [frente EXCEPT !.en = "construida"]
            ELSE Aviso

\* VentanaPrincipal.simulacion_por_defecto
simulacion_por_defecto ==
    /\ frente.en = "VentanaPrincipal"
    /\ Construir(<<1, 2, 10000, 2>>, 1000)
    /\ frente' = [frente EXCEPT !.en = "construida"]

\* VentanaPrincipal.personalizado: the window with the four entries
personalizado ==
    /\ frente.en = "VentanaPrincipal"
    /\ frente' = [frente EXCEPT !.en = "personalizado"]
    /\ SoloFrente

\* ejecutar, the command of "Iniciar Simulación": an entry that int() or
\* float() does not parse raises ValueError and the error box is shown;
\* entries that parse are passed to Faraday_3D as they are
ejecutar ==
    /\ frente.en = "personalizado"
    /\ \/ Aviso
       \/ \E n, r, B, f \in Valores :
            /\ Construir(<<n, r, B, f>>, 1000)
            /\ frente' = [frente EXCEPT !.en = "construida",
                                        !.valores = <<n, r, B, f>>]

NextFrente ==
    \/ main_tipo_config
    \/ usar_configuracion_rapida
    \/ solicitar_num_vueltas
    \/ solicitar_radio_espira
    \/ solicitar_B_max
    \/ solicitar_frecuencia
    \/ solicitar_duracion
    \/ simulacion_por_defecto
    \/ personalizado
    \/ ejecutar

SpecFrente == InitFrente /\ [][NextFrente]_vars

----------------------------------------------------------------------------
(* dibujar_campo_magnetico_3d called on a constructed Faraday_3D with a     *)
(* field of the caller's choice, outside any animation.                     *)

\* direct calls of dibujar_campo_magnetico_3d
MaxDibujos == 4

\* abs(B) / B_max of the fields passed, in 1e-3: zero, a rounding residue, the
\* two thresholds 0.05 and 0.1, the values just above them, and 1
Intensidades == { 0, 1, 50, 51, 100, 101, 1000 }

\* self.dibujar_campo_magnetico_3d(B, self.ax1) with B of either sign
LlamadaCampo ==
    /\ anim = "no"
    /\ args = <<>>
    /\ dibujo.llamadas < MaxDibujos
    /\ \E i \in Intensidades, signo \in {-1, 1} :
          LET B == signo * i * B_max
          IN  /\ ax1' = dibujar_campo_magnetico_3d(B, ax1)
              /\ dibujo' = [llamadas |-> dibujo.llamadas + 1, B |-> B]
    /\ UNCHANGED <<config, historia, ax2, ax3, color_espira, line_B, line_emf,
                   text_values, conductor, args, hecho, frente>>

NextCampo == LlamadaCampo

SpecCampo == Init /\ [][NextCampo]_vars

----------------------------------------------------------------------------
(* Claims. *)

\* the frame argument of the last call of animacion
frame == args[Len(args)]

\* the calls so far had strictly increasing frame arguments starting at 0
Creciente ==
    /\ Len(args) >= 1
    /\ args[1] = 0
    /\ \A i \in 1..(Len(args) - 1) : args[i] < args[i + 1]

\* C1: after k calls of animacion each of the four history series has length
\* k (in particular after k >= 1 calls with strictly increasing frames
\* starting at 0), and the four series have the same length in every state.
C1_HistoriaAlineada ==
    /\ Len(tiempo) = Len(campo_magnetico)
    /\ Len(tiempo) = Len(flujo_magnetico)
    /\ Len(tiempo) = Len(emf_inducida)
    /\ Creciente => Len(tiempo) = Len(args)
    /\ Len(tiempo) = Len(args)

\* twelve calls with increasing frames that skip some, on a frame where the
\* field is not redrawn and the camera not rotated
C1_Witness ==
    /\ Creciente
    /\ Len(args) = 12
    /\ frame = 17
    /\ Len(tiempo) = 12
    /\ hecho = {}

\* C2 (as claimed): once ejecutar_simulacion drives the simulation, the frame
\* indices passed to animacion are 0, 1, 2, ...: the i-th call gets i - 1,
\* never a reset, a rewind or a repetition.
C2_FramesConsecutivos ==
    anim # "no" => \A i \in 1..Len(args) : args[i] = i - 1

\* C3 (as claimed): in a simulation driven by ejecutar_simulacion the time
\* history is strictly increasing, and the entry at index i of each other
\* series is the value sampled at tiempo[i].
C3_OrdenTemporal ==
    anim # "no" =>
        /\ \A i, j \in 1..Len(tiempo) : i < j => tiempo[i] < tiempo[j]
        /\ \A i \in 1..Len(tiempo) :
              /\ campo_magnetico[i] = calcular_campo_magnetico(tiempo[i])
              /\ flujo_magnetico[i] =
                    calcular_flujo_magnetico(campo_magnetico[i])
              /\ emf_inducida[i] = calcular_emf_inducida(tiempo[i])

\* C4: a call animacion(frame) calls dibujar_campo_magnetico_3d if and only if
\* frame mod 2 = 0, whatever B and the history are: on those frames the field
\* vectors of ax1 are the ones of this frame's B (none when |B| / B_max is
\* at most 0.05), on the other frames the field elements of ax1 stay as they
\* were.
C4_CampoCadaDos ==
    [][args' # args =>
          LET f == args'[Len(args')]
              B == campo_magnetico'[Len(campo_magnetico')]
          IN  /\ ("dibujar_campo_magnetico_3d" \in hecho') <=> (f % 2 = 0)
              /\ f % 2 = 0 =>
                    ax1'.collections =
                        IF Abs(B) > 50 * B_max
                        THEN << [campo_magnetico |-> TRUE,
                                 color |-> IF B > 0 THEN "red" ELSE "blue",
                                 W |-> 4 * B] >>
                        ELSE << >>
              /\ f % 2 # 0 =>
                    /\ ax1'.collections = ax1.collections
                    /\ ax1'.lines = ax1.lines]_vars

\* an even frame on which the field is (nearly) zero: the redraw is called
\* and draws nothing; the flux circles of earlier redraws are there
C4_Witness ==
    /\ Len(args) >= 1
    /\ frame = 10
    /\ Abs(campo_magnetico[Len(campo_magnetico)]) <= B_max
    /\ "dibujar_campo_magnetico_3d" \in hecho
    /\ ax1.collections = <<>>
    /\ Len(ax1.lines) > 2

\* C5: a call animacion(frame) calls view_init if and only if frame mod 5 = 0,
\* and then with elevation 20 and the azimuth 45 + 15 * sin(0.3 * t) of this
\* frame's t = frame * 0.05; on the other frames the view is left unchanged.
C5_CamaraCadaCinco ==
    [][args' # args =>
          LET f == args'[Len(args')]
          IN  /\ ("view_init" \in hecho') <=> (f % 5 = 0)
              /\ f % 5 = 0 =>
                    /\ ax1'.azim = 45000 + 15 * SinRad(3 * (5 * f))
                    /\ ax1'.elev = 20
              /\ f % 5 # 0 =>
                    /\ ax1'.azim = ax1.azim
                    /\ ax1'.elev = ax1.elev]_vars

\* frame 5 has turned the camera to 46.125 degrees; frame 7 leaves it there
C5_Witness ==
    /\ Len(args) >= 2
    /\ frame = 7
    /\ "view_init" \notin hecho
    /\ ax1.azim = 46125
    /\ ax1.elev = 20

\* C6: a call animacion(frame) adjusts the limits of the two time-series plots
\* if and only if frame mod 10 = 0 and the history, this frame's sample
\* included, is longer than 10; on every other frame no limit of ax2 or ax3
\* changes.
C6_LimitesCadaDiez ==
    [][args' # args =>
          LET f == args'[Len(args')]
              toca == f % 10 = 0 /\ Len(tiempo') > 10
          IN  /\ ("set_xlim" \in hecho') <=> toca
              /\ toca => ax3'.xlim = Limite(0, Max(tiempo'))
              /\ ~toca => ax2' = ax2 /\ ax3' = ax3]_vars

\* the eleventh call is frame 10: the limits are adjusted for the first time
C6_Witness ==
    /\ Len(args) = 11
    /\ frame = 10
    /\ "set_xlim" \in hecho
    /\ ax2.xlim = Limite(0, 50)
    /\ ax3.xlim = Limite(0, 50)

\* C7: on a frame where the limits are adjusted, the y limits of a series'
\* plot (B on ax2, EMF on ax3) are set, to (1.1 * min, 1.1 * max), only when
\* the series has more than one distinct value and max - min exceeds 0.001;
\* when all its values are equal or the spread is at most 0.001 they are left
\* unchanged.
C7_GuardaDegenerada ==
    [][(args' # args /\ "set_xlim" \in hecho') =>
          LET Bs == { campo_magnetico'[i] : i \in 1..Len(campo_magnetico') }
              Es == { emf_inducida'[i] : i \in 1..Len(emf_inducida') }
              Bmin == CHOOSE x \in Bs : \A y \in Bs : x <= y
              Bmax == CHOOSE x \in Bs : \A y \in Bs : x >= y
              Emin == CHOOSE x \in Es : \A y \in Es : x <= y
              Emax == CHOOSE x \in Es : \A y \in Es : x >= y
          IN  /\ IF Cardinality(Bs) > 1 /\ Bmax - Bmin > 10000
                 THEN ax2'.ylim = [fijado |-> TRUE, lo |-> 11 * Bmin,
                                   hi |-> 11 * Bmax]
                 ELSE ax2'.ylim = ax2.ylim
              /\ IF Cardinality(Es) > 1 /\ Emax - Emin > 8105
                 THEN ax3'.ylim = [fijado |-> TRUE, lo |-> 11 * Emin,
                                   hi |-> 11 * Emax]
                 ELSE ax3'.ylim = ax3.ylim]_vars

\* a weak field: on an adjusting frame the B values differ by at most 0.001 T
\* and the y limits of ax2 have never been set, while those of ax3 have
C7_Witness ==
    /\ "set_xlim" \in hecho
    /\ Cardinality(set(campo_magnetico)) > 1
    /\ Max(campo_magnetico) - Min(campo_magnetico) <= 10000
    /\ ~ax2.ylim.fijado
    /\ ax3.ylim.fijado

\* C8: at every index of the history the flux is the field of the same index
\* times the loop area, the area being the one fixed at construction.
C8_FlujoEsCampoPorArea ==
    /\ area_espira = radio_espira * radio_espira
    /\ Len(flujo_magnetico) = Len(campo_magnetico)
    /\ \A i \in 1..Len(flujo_magnetico) :
          flujo_magnetico[i] = campo_magnetico[i] * area_espira

\* a loop of radius 1 m (area pi m^2) with a negative field sample
C8_Witness ==
    /\ Len(flujo_magnetico) >= 2
    /\ radio_espira = 2
    /\ campo_magnetico[Len(campo_magnetico)] < 0
    /\ flujo_magnetico[Len(flujo_magnetico)] =
          4 * campo_magnetico[Len(campo_magnetico)]

\* N * A * B_max * omega, the amplitude of the EMF
EmfMax == num_vueltas * area_espira * B_max * omega * 1000

\* the closed form N * A * B_max * omega * sin(omega * t) at the i-th sample
EmfAnalitica(i) ==
    num_vueltas * area_espira * B_max * omega * Sin(omega * tiempo[i])

\* C9 (as claimed): at every sample the EMF is the closed form of t alone,
\* |EMF| is N * A * B_max * omega exactly where B = 0, and EMF = 0 exactly
\* where |B| = B_max.
C9_DesfaseExacto ==
    \A i \in 1..Len(tiempo) :
        /\ emf_inducida[i] = EmfAnalitica(i)
        /\ (Abs(emf_inducida[i]) = EmfMax) <=> (campo_magnetico[i] = 0)
        /\ (emf_inducida[i] = 0) <=> (Abs(campo_magnetico[i]) = 1000 * B_max)

\* C9 (amended): at every sample the EMF is the closed form of t alone; where
\* |EMF| is N * A * B_max * omega, B is zero up to rounding (|B| is at most
\* 0.001 * B_max); where |B| = B_max, the EMF is zero up to rounding (|EMF| is
\* at most 0.001 of its amplitude); and where EMF = 0, |B| = B_max.
C9_DesfaseRedondeado ==
    \A i \in 1..Len(tiempo) :
        /\ emf_inducida[i] = EmfAnalitica(i)
        /\ Abs(emf_inducida[i]) = EmfMax => Abs(campo_magnetico[i]) <= B_max
        /\ Abs(campo_magnetico[i]) = 1000 * B_max =>
              Abs(emf_inducida[i]) * 1000 <= EmfMax
        /\ emf_inducida[i] = 0 => Abs(campo_magnetico[i]) = 1000 * B_max

\* the EMF at its amplitude on a sample whose field is a rounding residue,
\* after a sample with the field at -B_max and an EMF that is a residue
C9_Witness ==
    \E i, j \in 1..Len(tiempo) :
        /\ i < j
        /\ campo_magnetico[i] = -1000 * B_max
        /\ emf_inducida[i] # 0
        /\ Abs(emf_inducida[j]) = EmfMax
        /\ campo_magnetico[j] # 0

\* C10 (as claimed): the number of frames requested for a run of duracion
\* seconds is floor(duracion / 0.05); 10 seconds give 200 frames.
C10_TotalFrames ==
    anim # "no" =>
        /\ frames * 5 <= duracion
        /\ duracion < (frames + 1) * 5
        /\ duracion = 1000 => frames = 200

\* C11 (as claimed): whenever a front-end has constructed a Faraday_3D, its
\* turns, radius, peak field and frequency are all positive: a non-positive
\* value never reaches the constructor.
C11_SoloPositivos ==
    frente.en = "construida" =>
        /\ num_vueltas > 0
        /\ radio_espira > 0
        /\ B_max > 0
        /\ frecuencia > 0

\* C12 (as claimed): once animacion has coloured the loop, the normalized EMF
\* intensity |emf| / (num_vueltas * B_max * omega * area_espira) is in [0, 1]
\* and the colour-map argument 0.5 + 0.5 * intensity is in [0.5, 1], on every
\* frame and for every configuration with positive parameters.
C12_IntensidadAcotada ==
    (args # <<>> /\ num_vueltas > 0 /\ radio_espira > 0 /\ B_max > 0
        /\ frecuencia > 0) =>
        /\ color_espira.intensidad_emf >= 0
        /\ color_espira.intensidad_emf <= 1000
        /\ color_espira.x >= 500
        /\ color_espira.x <= 1000

\* the elements of a sequence of artists that carry the campo_magnetico tag
DelCampo(artistas) == SelectSeq(artistas, LAMBDA a : a.campo_magnetico)

\* C13: a call of dibujar_campo_magnetico_3d with field B draws the field
\* vectors if and only if |B| / B_max > 0.05 and the two flux circles, of radii
\* 0.5 and 0.8, if and only if |B| / B_max > 0.10, so never circles without
\* vectors; whenever it draws anything B is not 0, what it draws is red when
\* B > 0 and blue when B < 0, and the z component of the vectors has the sign
\* of B.
C13_UmbralesDeDibujo ==
    [][dibujo' # dibujo =>
          LET B == dibujo'.B
              vectores == DelCampo(ax1'.collections)
              circulos == SubSeq(ax1'.lines, Len(ax1.lines) + 1,
                                 Len(ax1'.lines))
              color == IF B > 0 THEN "red" ELSE "blue"
          IN  /\ (vectores # <<>>) <=> (Abs(B) > 50 * B_max)
              /\ (circulos # <<>>) <=> (Abs(B) > 100 * B_max)
              /\ circulos # <<>> =>
                    /\ vectores # <<>>
                    /\ Len(circulos) = 2
                    /\ circulos[1].r = 5 /\ circulos[2].r = 8
                    /\ \A k \in 1..2 :
                          circulos[k].campo_magnetico /\ circulos[k].color = color
              /\ vectores # <<>> =>
                    /\ B # 0
                    /\ Len(vectores) = 1
                    /\ vectores[1].color = color
                    /\ (vectores[1].W > 0) <=> (B > 0)
                    /\ (vectores[1].W < 0) <=> (B < 0)]_vars

\* a downward field of 0.051 B_max: blue vectors are drawn, and no flux circle
\* has been drawn by this call or by an earlier one
C13_Witness ==
    /\ dibujo.llamadas >= 2
    /\ dibujo.B = -51 * B_max
    /\ ax1.collections =
          << [campo_magnetico |-> TRUE, color |-> "blue", W |-> 4 * dibujo.B] >>
    /\ DelCampo(ax1.lines) = <<>>

\* C14 (as claimed): after any sequence of calls of dibujar_campo_magnetico_3d
\* the axes hold only the field elements the most recent call created: at most
\* one vector collection and at most two flux circles, those of the last B.
C14_ReemplazoTotal ==
    dibujo.llamadas > 0 =>
        LET B == dibujo.B
            color == IF B > 0 THEN "red" ELSE "blue"
        IN  /\ Len(DelCampo(ax1.collections)) <= 1
            /\ Len(DelCampo(ax1.lines)) <= 2
            /\ DelCampo(ax1.collections) =
                  IF Abs(B) > 50 * B_max
                  THEN << [campo_magnetico |-> TRUE, color |-> color,
                           W |-> 4 * B] >>
                  ELSE << >>
            /\ DelCampo(ax1.lines) =
                  IF Abs(B) > 100 * B_max
                  THEN << [campo_magnetico |-> TRUE, color |-> color, r |-> 5],
                          [campo_magnetico |-> TRUE, color |-> color, r |-> 8] >>
                  ELSE << >>

\* C15 (as claimed): on a frame where animacion sets the y limits of a
\* time-series plot, the interval set, [1.1 * min, 1.1 * max], contains every
\* value of the series' history: its lower end is at most the minimum and its
\* upper end at least the maximum, for B (ax2) and for the EMF (ax3).  The
\* limits are in tenths of the series' unit.
C15_LimitesContienen ==
    /\ "set_ylim_B" \in hecho =>
          /\ ax2.ylim.lo <= 10 * Min(campo_magnetico)
          /\ ax2.ylim.hi >= 10 * Max(campo_magnetico)
    /\ "set_ylim_emf" \in hecho =>
          /\ ax3.ylim.lo <= 10 * Min(emf_inducida)
          /\ ax3.ylim.hi >= 10 * Max(emf_inducida)

\* C16 (as claimed): a call animacion(frame) refreshes the text if and only if
\* frame mod 3 = 0, and the view angle the refreshed text shows (one decimal)
\* is the azimuth the camera of ax1 has at the end of that frame.
C16_VistaMostrada ==
    [][args' # args =>
          LET f == args'[Len(args')]
          IN  /\ ("set_text" \in hecho') <=> (f % 3 = 0)
              /\ f % 3 # 0 => text_values' = text_values
              /\ f % 3 = 0 =>
                    /\ text_values'.puesto
                    /\ text_values'.vista = Formato1(ax1'.azim)]_vars

====
